---- MODULE Spec2Model ----
(***************************************************************************)
(* Model of the private star-registry blockchain: the Block class and the *)
(* Blockchain class of src/src/block.js.                                   *)
(*                                                                         *)
(* Every method of the two classes returns a Promise, and most of them     *)
(* suspend at an `await`.  The model therefore keeps the JavaScript        *)
(* promise-job queue (a FIFO) as state: a call runs its synchronous part   *)
(* as one action and leaves a job in the queue, and every later action     *)
(* runs the job at the head of the queue up to its next suspension.        *)
(*                                                                         *)
(* Values.  JavaScript values are modelled by TLA+ values that can always  *)
(* be compared with one another:                                           *)
(*   - a string of the payload / body is the sequence of its code units;   *)
(*   - a hex string is the sequence of its hex digits (0..15);             *)
(*   - `null` for a hash is the empty tuple, a digest is a non-empty one;  *)
(*   - a slot that holds either a Block or `undefined` is a sequence of    *)
(*     length one (<<block>>) or zero (<<>>).                              *)
(***************************************************************************)
EXTENDS Integers, Sequences, FiniteSets, TLC

VARIABLES
    chain,      \* Blockchain.chain: sequence of slots, <<block>> or <<>> (undefined)
    height,     \* Blockchain.height
    now,        \* the wall clock, in seconds (new Date().getTime() / 1000)
    queue,      \* the promise-job queue: jobs of the calls in flight, FIFO
    last,       \* what the latest call gave its caller; Pending from the start of
                \* a call that suspends until it settles
    mutated,    \* how many times a record was changed out-of-band
    dirty       \* indices of chain changed out-of-band since the last finished validateChain

vars == <<chain, height, now, queue, last, mutated, dirty>>

-----------------------------------------------------------------------------
(* Bounds of the model *)

\* the longest chain explored (committed slots plus appends in flight)
MaxChain == 3
\* the most jobs in flight at once
MaxJobs == 2
\* the most out-of-band changes of records
MaxMutations == 1

\* wallet addresses
Addresses == {"addrA", "addrB"}
\* the instants the clock takes
Times == {1000, 1300}
\* the instants a challenge may carry: 300, 299, 0 and -1 seconds before those
IssueTimes == {1000, 1001}
\* star payloads (strings, as code units): 'A"' and 'é' (U+00E9)
Payloads == {<<65, 34>>, <<233>>}

-----------------------------------------------------------------------------
(* Values *)

NULL == <<>>
Undefined == <<>>
NoOwner == "absent"
Some(v) == <<v>>

\* 5 * 60 seconds, block.js line 227
ChallengeWindow == 5 * 60

\* "star", "data", "Genesis Block" as code units
KeyStar == <<115, 116, 97, 114>>
KeyData == <<100, 97, 116, 97>>
GenesisText == <<71, 101, 110, 101, 115, 105, 115, 32, 66, 108, 111, 99, 107>>

-----------------------------------------------------------------------------
(* Encoding of a block body: Buffer(JSON.stringify(data)).toString('hex')  *)

RECURSIVE JsonEscape(_)
\* JSON.stringify of the characters of a string: '"' and '\' get a backslash
JsonEscape(s) ==
    IF s = <<>> THEN <<>>
    ELSE IF Head(s) \in {34, 92}
         THEN <<92, Head(s)>> \o JsonEscape(Tail(s))
         ELSE <<Head(s)>> \o JsonEscape(Tail(s))

\* JSON.stringify of a one-property object {key: val} with a string value
JsonStringify(data) ==
    <<123, 34>> \o data.key \o <<34, 58, 34>> \o JsonEscape(data.val) \o <<34, 125>>

RECURSIVE Utf8(_)
\* Buffer(string): the UTF-8 bytes of a string
Utf8(s) ==
    IF s = <<>> THEN <<>>
    ELSE LET c == Head(s) IN
         (IF c < 128 THEN <<c>>
          ELSE IF c < 2048 THEN <<192 + (c \div 64), 128 + (c % 64)>>
          ELSE <<224 + (c \div 4096), 128 + ((c \div 64) % 64), 128 + (c % 64)>>)
         \o Utf8(Tail(s))

RECURSIVE ToHex(_)
\* buffer.toString('hex'): two hex digits per byte
ToHex(bytes) ==
    IF bytes = <<>> THEN <<>>
    ELSE <<Head(bytes) \div 16, Head(bytes) % 16>> \o ToHex(Tail(bytes))

EncodeBody(data) == ToHex(Utf8(JsonStringify(data)))

RECURSIVE hex2ascii(_)
\* hex2ascii: String.fromCharCode of every pair of hex digits, one character per
\* byte; a byte of value 0 gives no character
hex2ascii(hex) ==
    IF Len(hex) < 2 THEN <<>>
    ELSE (IF 16 * hex[1] + hex[2] = 0 THEN <<>> ELSE <<16 * hex[1] + hex[2]>>)
         \o hex2ascii(SubSeq(hex, 3, Len(hex)))

RECURSIVE JsonUnescape(_)
\* the characters of a JSON string literal up to its closing quote
JsonUnescape(t) ==
    IF t = <<>> \/ Head(t) = 34 THEN <<>>
    ELSE IF Head(t) = 92 /\ Len(t) >= 2
         THEN <<t[2]>> \o JsonUnescape(SubSeq(t, 3, Len(t)))
         ELSE <<Head(t)>> \o JsonUnescape(Tail(t))

RECURSIVE LiteralLen(_)
\* how many characters of t the string literal takes, closing quote excluded
LiteralLen(t) ==
    IF t = <<>> \/ Head(t) = 34 THEN 0
    ELSE IF Head(t) = 92 /\ Len(t) >= 2
         THEN 2 + LiteralLen(SubSeq(t, 3, Len(t)))
         ELSE 1 + LiteralLen(Tail(t))

\* JSON.parse of the text of a one-property object with a string value
JsonParse(text) ==
    LET afterKeyQuote == SubSeq(text, 3, Len(text))
        key == JsonUnescape(afterKeyQuote)
        afterKey == SubSeq(afterKeyQuote, LiteralLen(afterKeyQuote) + 4, Len(afterKeyQuote))
    IN [key |-> key, val |-> JsonUnescape(afterKey)]

\* JSON.parse(hex2ascii(body))
DecodeBody(body) == JsonParse(hex2ascii(body))

-----------------------------------------------------------------------------
(* Block *)

\* new Block(data)
NewBlock(data) ==
    [hash |-> NULL, height |-> 0, body |-> EncodeBody(data), time |-> 0,
     previousBlockHash |-> NULL, owner |-> NoOwner]

\* JSON.stringify(block): the values of the own properties in insertion order;
\* the key `owner` is there only on a block that was given one
Stringify(b) ==
    IF b.owner = NoOwner
    THEN <<b.hash, b.height, b.body, b.time, b.previousBlockHash>>
    ELSE <<b.hash, b.height, b.body, b.time, b.previousBlockHash, b.owner>>

\* SHA256(text).toString(): a collision-free digest of the text
SHA256(text) == <<"sha256", text>>

\* hash.length of a digest rendered in hex
HashLength(h) == IF h = NULL THEN 0 ELSE 64


\* blockValid of _addBlock, evaluated after the await on the digest
BlockValid(b) ==
    /\ b.hash # NULL
    /\ HashLength(b.hash) = 64
    /\ b.height = Len(chain)
    /\ b.time # 0

\* (a variant that links a block to the record before the tail)
AddBlockSync_LinksBeforeTail(block) ==
    LET h == Len(chain)
        b == [block EXCEPT
                !.previousBlockHash =
                    IF h >= 2 /\ chain[h - 1] # Undefined THEN chain[h - 1][1].hash ELSE NULL,
                !.height = h,
                !.time = now]
    IN [block |-> b, digest |-> SHA256(Stringify(b))]

\* the synchronous part of _addBlock, up to the await: link, height, time, digest
AddBlockSync(block) ==
    LET h == Len(chain)
        b == [block EXCEPT
                !.previousBlockHash =
                    IF h >= 1 /\ chain[h] # Undefined THEN chain[h][1].hash ELSE NULL,
                !.height = h,
                !.time = now]
    IN [block |-> b, digest |-> SHA256(Stringify(b))]

\* (a variant that digests the block with its stored hash left in)
ValidateDigest_KeepsHash(b) == SHA256(Stringify(b))

\* the digest Block.validate computes: over {...self, hash: null}
ValidateDigest(b) == SHA256(Stringify([b EXCEPT !.hash = NULL]))

\* (a variant that compares self.hash with itself, the saved hash forgotten)
IsValid_ComparesOverwritten(saved, digest) == digest = digest

\* what Block.validate resolves with: hash === self.hash, self.hash the new digest
IsValid(saved, digest) == saved = digest

-----------------------------------------------------------------------------
(* Ownership challenge *)

\* `${address}:${seconds}:starRegistry`, kept as its three ':'-separated parts
Challenge(address, t) == <<address, t, "starRegistry">>

\* parseInt(message.split(':')[1])
RequestTime(message) == message[2]

\* a signature names the wallet that made it and the message it was made over
Sign(wallet, message) == <<wallet, message>>

\* bitcoinMessage.verify(message, address, signature)
Verify(message, address, signature) == signature = Sign(address, message)

-----------------------------------------------------------------------------
(* The state after `new Blockchain()`: the constructor has run               *)
(* initializeChain up to the await inside _addBlock.                         *)

GenesisData == [key |-> KeyData, val |-> GenesisText]

\* the job a call of _addBlock leaves in the queue
AddJob(kind, block, error, address, star) ==
    LET a == AddBlockSync(block)
    IN [kind |-> kind, pc |-> "seal", block |-> a.block, digest |-> a.digest,
        rejected |-> FALSE, value |-> Undefined, error |-> error,
        address |-> address, star |-> star,
        chainBefore |-> chain, heightBefore |-> height]

NoCall == [op |-> "none"]
Pending == [op |-> "pending"]

Init ==
    /\ chain = <<>>
    /\ height = -1
    /\ now = CHOOSE t \in Times : \A u \in Times : t <= u
    /\ last = NoCall
    /\ mutated = 0
    /\ dirty = {}
    /\ queue = <<AddJob("init", NewBlock(GenesisData), "none", NoOwner, <<>>)>>

-----------------------------------------------------------------------------
(* Calls: the synchronous part of each method *)

\* appends committed or in flight
AddsInFlight == Cardinality({i \in 1..Len(queue) : queue[i].kind \in {"init", "star"}})

CanAppend == Len(chain) + AddsInFlight < MaxChain

CanCall == Len(queue) < MaxJobs

\* initializeChain(): a genesis block is made while height is still -1
InitializeChain ==
    /\ CanCall
    /\ IF height = -1
       THEN /\ CanAppend
            /\ queue' = Append(queue, AddJob("init", NewBlock(GenesisData), "none", NoOwner, <<>>))
            /\ last' = Pending
       ELSE /\ last' = [op |-> "initializeChain", appended |-> FALSE]
            /\ UNCHANGED queue
    /\ UNCHANGED <<chain, height, now, mutated, dirty>>

\* getChainHeight()
GetChainHeight ==
    /\ last' = [op |-> "getChainHeight", value |-> height]
    /\ UNCHANGED <<chain, height, now, queue, mutated, dirty>>

\* requestMessageOwnershipVerification(address)
RequestMessageOwnershipVerification(address) ==
    /\ last' = [op |-> "requestOwnership", value |-> Challenge(address, now)]
    /\ UNCHANGED <<chain, height, now, queue, mutated, dirty>>

\* how many submitStar calls in a row, this one included, have carried this address,
\* message and signature, each of the earlier ones having resolved
Uses(address, message, signature) ==
    IF /\ last.op = "submitStar"
       /\ last.outcome = "resolved"
       /\ last.address = address
       /\ last.message = message
       /\ last.signature = signature
    THEN last.uses + 1
    ELSE 1

\* (a variant that remembers the challenge of the submitStar before and refuses it)
SubmitError_ConsumesChallenge(address, message, signature) ==
    IF now - RequestTime(message) >= ChallengeWindow THEN "timed out"
    ELSE IF ~Verify(message, address, signature) THEN "invalid message"
    ELSE IF last.op = "submitStar" /\ last.message = message THEN "invalid message"
    ELSE "none"

\* (a variant whose window is still open at 300 seconds)
SubmitError_ExpiresAfterWindow(address, message, signature) ==
    IF now - RequestTime(message) > ChallengeWindow THEN "timed out"
    ELSE IF ~Verify(message, address, signature) THEN "invalid message"
    ELSE "none"

\* the rejection submitStar signals before it goes on: the first reject() wins
SubmitError(address, message, signature) ==
    IF now - RequestTime(message) >= ChallengeWindow THEN "timed out"
    ELSE IF ~Verify(message, address, signature) THEN "invalid message"
    ELSE "none"

\* submitStar(address, message, signature, star), up to the await inside _addBlock
SubmitStar(address, message, signature, star) ==
    /\ CanCall
    /\ CanAppend
    /\ queue' = Append(queue,
            AddJob("star",
                   [NewBlock([key |-> KeyStar, val |-> star]) EXCEPT !.owner = address],
                   SubmitError(address, message, signature), address, star)
            @@ [message |-> message, signature |-> signature, calledAt |-> now,
                uses |-> Uses(address, message, signature)])
    /\ last' = Pending
    /\ UNCHANGED <<chain, height, now, mutated, dirty>>

-----------------------------------------------------------------------------
(* Jobs of _addBlock and of its callers *)

job == Head(queue)

\* after `await SHA256(...)`: the hash is stored, blockValid resolves or rejects
Seal ==
    /\ queue # <<>>
    /\ job.pc = "seal"
    /\ LET b == [job.block EXCEPT !.hash = job.digest]
       IN queue' = Append(Tail(queue),
                [job EXCEPT !.pc = "catch", !.block = b, !.rejected = ~BlockValid(b)])
    /\ UNCHANGED <<chain, height, now, last, mutated, dirty>>

\* .catch(error => console.log(...)): a rejection becomes the value undefined
Catch ==
    /\ queue # <<>>
    /\ job.pc = "catch"
    /\ queue' = Append(Tail(queue),
            [job EXCEPT !.pc = "push",
                        !.value = IF job.rejected THEN Undefined ELSE Some(job.block)])
    /\ UNCHANGED <<chain, height, now, last, mutated, dirty>>

\* (a variant that puts the block at the front of the chain)
Push_Unshift ==
    /\ queue # <<>>
    /\ job.pc = "push"
    /\ chain' = <<job.value>> \o chain
    /\ height' = Len(chain') - 1
    /\ queue' = Append(Tail(queue), [job EXCEPT !.pc = "settle"])
    /\ UNCHANGED <<now, last, mutated, dirty>>

\* (a variant that takes the height of the ledger from the block pushed)
Push_HeightOfBlock ==
    /\ queue # <<>>
    /\ job.pc = "push"
    /\ chain' = Append(chain, job.value)
    /\ height' = job.block.height
    /\ queue' = Append(Tail(queue), [job EXCEPT !.pc = "settle"])
    /\ UNCHANGED <<now, last, mutated, dirty>>

\* .then(block => { chain.push(block); height = chain.length - 1; return block })
Push ==
    /\ queue # <<>>
    /\ job.pc = "push"
    /\ chain' = Append(chain, job.value)
    /\ height' = Len(chain') - 1
    /\ queue' = Append(Tail(queue), [job EXCEPT !.pc = "settle"])
    /\ UNCHANGED <<now, last, mutated, dirty>>

\* the caller resumes after `await _addBlock(block)`; submitStar calls resolve(block),
\* which settles its promise unless a reject() already did
Settle ==
    /\ queue # <<>>
    /\ job.pc = "settle"
    /\ queue' = Tail(queue)
    /\ last' = IF job.kind = "star"
               THEN [op |-> "submitStar",
                     outcome |-> IF job.error = "none" THEN "resolved" ELSE "rejected",
                     error |-> job.error,
                     value |-> IF job.error = "none" THEN job.value ELSE Undefined,
                     address |-> job.address, star |-> job.star,
                     message |-> job.message, signature |-> job.signature,
                     calledAt |-> job.calledAt, uses |-> job.uses,
                     chainBefore |-> job.chainBefore, heightBefore |-> job.heightBefore,
                     chainAfter |-> chain, heightAfter |-> height]
               ELSE [op |-> "initializeChain", appended |-> TRUE]
    /\ UNCHANGED <<chain, height, now, mutated, dirty>>

-----------------------------------------------------------------------------
(* Block.validate and validateChain *)

\* what validateChain resolves with: the string 'No errors detected.' (clean)
\* or the list of errors
Report(errorLog) == [clean |-> errorLog = <<>>, errors |-> errorLog]

HasUndefined == \E k \in 1..Len(chain) : chain[k] = Undefined

\* chain.filter(b => b.height === h)[0], as a slot
FirstWithHeight(h) ==
    LET matches == {k \in 1..Len(chain) : chain[k][1].height = h}
    IN IF matches = {} THEN Undefined
       ELSE chain[CHOOSE k \in matches : \A m \in matches : k <= m]

\* the loop of validateChain arrives at index i (1-based) with the errors found so
\* far: it ends, or it calls validate() of the next block, which saves the stored
\* hash, computes the digest and suspends; validate() of undefined throws, and the
\* promise of validateChain then never settles
Iterate(i, errorLog, background, rest) ==
    IF i > Len(chain)
    THEN [queue |-> rest, outcome |-> "resolved", errorLog |-> errorLog, examined |-> i - 1]
    ELSE IF chain[i] = Undefined
    THEN [queue |-> rest, outcome |-> "never settles", errorLog |-> errorLog, examined |-> i - 1]
    ELSE [queue |-> Append(rest,
                    [kind |-> "validate", pc |-> "rehash", i |-> i,
                     hash |-> chain[i][1].hash, digest |-> ValidateDigest(chain[i][1]),
                     valid |-> FALSE, errorLog |-> errorLog, background |-> background]),
          outcome |-> "pending", errorLog |-> errorLog, examined |-> i - 1]

\* the report of the validateChain before this one, when that call was the last to
\* settle and no record was changed since
PreviousReport ==
    IF last.op = "validateChain" /\ last.outcome = "resolved" /\ dirty = {}
    THEN Some(last.report)
    ELSE <<>>

\* a validateChain is in flight
Validating(previous) == [op |-> "pending", previous |-> previous]

ValidateOutcome(r, previous) ==
    [op |-> "validateChain", outcome |-> r.outcome, report |-> Report(r.errorLog),
     examined |-> r.examined, chainExamined |-> chain, tampered |-> dirty,
     previous |-> previous]

\* validateChain(), up to the first await
ValidateChain ==
    /\ CanCall
    /\ LET r == Iterate(1, <<>>, FALSE, queue)
       IN /\ queue' = r.queue
          /\ last' = IF r.outcome = "pending" THEN Validating(PreviousReport)
                     ELSE ValidateOutcome(r, PreviousReport)
          /\ dirty' = IF r.outcome = "resolved" THEN {} ELSE dirty
    /\ UNCHANGED <<chain, height, now, mutated>>

\* (a variant that compares the digest and leaves self.hash as it is)
Rehash_KeepsStoredHash ==
    /\ queue # <<>>
    /\ job.pc = "rehash"
    /\ queue' = Append(Tail(queue),
            [job EXCEPT !.pc = "check", !.valid = IsValid(job.hash, job.digest)])
    /\ UNCHANGED <<chain, height, now, last, mutated, dirty>>

\* Block.validate after `await SHA256(...)`: the digest is stored in self.hash and
\* compared with the hash saved before
Rehash ==
    /\ queue # <<>>
    /\ job.pc = "rehash"
    /\ chain' = [chain EXCEPT ![job.i] = Some([chain[job.i][1] EXCEPT !.hash = job.digest])]
    /\ queue' = Append(Tail(queue),
            [job EXCEPT !.pc = "check", !.valid = IsValid(job.hash, job.digest)])
    /\ UNCHANGED <<height, now, last, mutated, dirty>>

\* the link test of validateChain on a valid block b of height > 0
LinkCheck(b) ==
    IF HasUndefined \/ FirstWithHeight(b.height - 1) = Undefined THEN "throws"
    ELSE IF b.previousBlockHash # FirstWithHeight(b.height - 1)[1].hash THEN "error"
    ELSE "ok"

\* the errors after the block at job.i is dealt with
ErrorLogAfter(b, valid, link, errorLog) ==
    IF ~valid
    THEN Append(errorLog, [type |-> "Invalid block", height |-> b.height, hash |-> b.hash])
    ELSE IF link = "error"
    THEN Append(errorLog, [type |-> "Invalid link", height |-> b.height, hash |-> NULL])
    ELSE errorLog

\* validateChain resumes after `await block.validate()`, logs an error or not, and
\* goes on to the next block
Check ==
    /\ queue # <<>>
    /\ job.pc = "check"
    /\ LET b == chain[job.i][1]
           link == IF job.valid /\ b.height > 0 THEN LinkCheck(b) ELSE "ok"
           r == IF link = "throws"
                THEN [queue |-> Tail(queue), outcome |-> "never settles",
                      errorLog |-> job.errorLog, examined |-> job.i]
                ELSE Iterate(job.i + 1, ErrorLogAfter(b, job.valid, link, job.errorLog),
                             job.background, Tail(queue))
       IN /\ queue' = r.queue
          /\ last' = IF r.outcome = "pending" \/ job.background THEN last
                     ELSE ValidateOutcome(r,
                              IF "previous" \in DOMAIN last THEN last.previous ELSE <<>>)
          /\ dirty' = IF r.outcome = "resolved" THEN {} ELSE dirty
    /\ UNCHANGED <<chain, height, now, mutated>>

-----------------------------------------------------------------------------
(* Lookups *)

\* getBlockByHash(hash): filter(block => block.hash === hash)[0]
GetBlockByHash(hash) ==
    /\ last' = IF HasUndefined
               THEN [op |-> "getBlockByHash", outcome |-> "rejected", value |-> Undefined]
               ELSE LET matches == {k \in 1..Len(chain) : chain[k][1].hash = hash}
                    IN [op |-> "getBlockByHash", outcome |-> "resolved",
                        value |-> IF matches = {} THEN Undefined
                                  ELSE chain[CHOOSE k \in matches : \A m \in matches : k <= m]]
    /\ UNCHANGED <<chain, height, now, queue, mutated, dirty>>

\* getBlockByHeight(height): filter(p => p.height === height)[0], or null
GetBlockByHeight(h) ==
    /\ last' = IF HasUndefined
               THEN [op |-> "getBlockByHeight", outcome |-> "rejected", value |-> Undefined]
               ELSE [op |-> "getBlockByHeight", outcome |-> "resolved",
                     value |-> FirstWithHeight(h)]
    /\ UNCHANGED <<chain, height, now, queue, mutated, dirty>>

\* (a variant that takes every block that has an owner)
StarsOf_AnyOwner(address) ==
    LET owned == SelectSeq(chain, LAMBDA slot : slot[1].owner # NoOwner)
    IN [k \in 1..Len(owned) |-> DecodeBody(owned[k][1].body)]

\* the blocks of an owner, decoded
StarsOf(address) ==
    LET owned == SelectSeq(chain, LAMBDA slot : slot[1].owner = address)
    IN [k \in 1..Len(owned) |-> DecodeBody(owned[k][1].body)]

\* getStarsByWalletAddress(address): starts validateChain() in the background, then
\* filters and decodes at once
GetStarsByWalletAddress(address) ==
    /\ CanCall
    /\ LET r == Iterate(1, <<>>, TRUE, queue)
       IN /\ queue' = r.queue
          /\ dirty' = IF r.outcome = "resolved" THEN {} ELSE dirty
    /\ last' = IF HasUndefined
               THEN [op |-> "getStars", address |-> address,
                     outcome |-> "never settles", value |-> <<>>]
               ELSE IF StarsOf(address) = <<>>
               THEN [op |-> "getStars", address |-> address,
                     outcome |-> "rejected", value |-> <<>>]
               ELSE [op |-> "getStars", address |-> address,
                     outcome |-> "resolved", value |-> StarsOf(address)]
    /\ UNCHANGED <<chain, height, now, mutated>>

\* getBData() of the block at index i: the body is decoded, and the promise resolves
\* with the object unless the block has height 0
GetBData(i) ==
    /\ i \in 1..Len(chain)
    /\ chain[i] # Undefined
    /\ LET b == chain[i][1]
           decodedObject == DecodeBody(b.body)
       IN last' = IF b.height > 0
                  THEN [op |-> "getBData", outcome |-> "resolved", error |-> "none",
                        value |-> Some(decodedObject), block |-> b]
                  ELSE [op |-> "getBData", outcome |-> "rejected", error |-> "Genesis Block",
                        value |-> Undefined, block |-> b]
    /\ UNCHANGED <<chain, height, now, queue, mutated, dirty>>

-----------------------------------------------------------------------------
(* The environment: the clock, and changes of records behind the ledger's back *)

ClockAdvance ==
    /\ \E t \in Times : t > now /\ now' = t
    /\ UNCHANGED <<chain, height, queue, last, mutated, dirty>>

ForgedHash == <<"forged">>

TamperFields == {"hash", "body", "time", "previousBlockHash", "owner"}

\* the block with one field given a value no honest block has
Tampered(b, field) ==
    CASE field = "hash" -> [b EXCEPT !.hash = ForgedHash]
      [] field = "body" -> [b EXCEPT !.body = EncodeBody([key |-> KeyStar, val |-> <<88>>])]
      [] field = "time" -> [b EXCEPT !.time = b.time + 1]
      [] field = "previousBlockHash" -> [b EXCEPT !.previousBlockHash = ForgedHash]
      [] field = "owner" -> [b EXCEPT !.owner = "mallory"]

\* one field of the block at index i is changed out-of-band
Tamper(i, field) ==
    /\ mutated < MaxMutations
    /\ i \in 1..Len(chain)
    /\ chain[i] # Undefined
    /\ i \notin dirty
    /\ Tampered(chain[i][1], field) # chain[i][1]
    /\ chain' = [chain EXCEPT ![i] = Some(Tampered(chain[i][1], field))]
    /\ mutated' = mutated + 1
    /\ dirty' = dirty \cup {i}
    /\ UNCHANGED <<height, now, queue, last>>

-----------------------------------------------------------------------------
(* Specifications *)

\* the messages and signatures a client may send for an address: a challenge with
\* any issue time, signed by the wallet or by another one
Messages(address) == {Challenge(address, t) : t \in IssueTimes}

Signatures(message) == {Sign(w, message) : w \in Addresses}

\* the hashes a client may look up
KnownHashes ==
    {chain[k][1].hash : k \in {m \in 1..Len(chain) : chain[m] # Undefined}} \cup {ForgedHash}

\* a job in flight runs up to its next suspension
JobStep ==
    \/ Seal
    \/ Catch
    \/ Push
    \/ Settle
    \/ Rehash
    \/ Check

\* a client submits a star with any of the messages and signatures
AnySubmit ==
    \E a \in Addresses : \E m \in Messages(a) : \E s \in Signatures(m) :
        \E star \in Payloads : SubmitStar(a, m, s, star)

\* a client submits a star with the challenge of this instant, signed by its wallet
FreshSubmit ==
    \E a \in Addresses : \E star \in Payloads :
        SubmitStar(a, Challenge(a, now), Sign(a, Challenge(a, now)), star)

TamperAny == \E i \in 1..Len(chain) : \E f \in TamperFields : Tamper(i, f)

Quiet == queue = <<>>

\* validations and lookups that start, and the clock ticking, with no call in flight
QuietStep ==
    \/ Quiet /\ ValidateChain
    \/ Quiet /\ \E a \in Addresses : GetStarsByWalletAddress(a)
    \/ Quiet /\ GetChainHeight
    \/ Quiet /\ \E a \in Addresses : RequestMessageOwnershipVerification(a)
    \/ Quiet /\ \E h \in KnownHashes : GetBlockByHash(h)
    \/ Quiet /\ \E h \in 0..Len(chain) : GetBlockByHeight(h)
    \/ Quiet /\ \E i \in 1..Len(chain) : GetBData(i)
    \/ Quiet /\ ClockAdvance

\* Spec: the calls that append (initializeChain, and submitStar with a fresh, well
\* signed challenge) arrive at any point between two jobs of the calls in flight;
\* validations and lookups start, and the clock ticks, when no call is in flight
Next ==
    \/ JobStep
    \/ InitializeChain
    \/ FreshSubmit
    \/ QuietStep

Spec == Init /\ [][Next]_vars

\* StarSpec: as Spec, with no call of initializeChain but the constructor's
StarNext ==
    \/ JobStep
    \/ FreshSubmit
    \/ QuietStep

StarSpec == Init /\ [][StarNext]_vars

\* SeqSpec: every call arrives when the calls before it have finished, which is the
\* use the HTTP controller makes of the ledger (one call per request)
SeqNext ==
    \/ JobStep
    \/ Quiet /\ InitializeChain
    \/ Quiet /\ AnySubmit
    \/ QuietStep

SeqSpec == Init /\ [][SeqNext]_vars

\* TamperSpec: calls that do not overlap (submitStar with a fresh, well signed
\* challenge, and validateChain), and records changed out-of-band between calls
TamperNext ==
    \/ JobStep
    \/ Quiet /\ FreshSubmit
    \/ Quiet /\ ValidateChain
    \/ Quiet /\ TamperAny

TamperSpec == Init /\ [][TamperNext]_vars

-----------------------------------------------------------------------------
(* Properties *)

Defined(i) == chain[i] # Undefined

\* the call that settled last was a submitStar
SubmitSettled == last.op = "submitStar"

\* the ledger is as it was when the submitStar that settled last was called
LedgerUntouched ==
    /\ last.chainAfter = last.chainBefore
    /\ last.heightAfter = last.heightBefore

\* C1: a submitStar whose challenge is 300 seconds old or older appends nothing:
\* the chain and the height after the call are those before it.
C1_ExpiredSubmitAppendsNothing ==
    (SubmitSettled /\ last.error = "timed out") => LedgerUntouched

\* C2: a submitStar within the window whose signature does not verify is rejected
\* as an invalid message and appends nothing.
C2_BadSignatureAppendsNothing ==
    (SubmitSettled /\ last.error = "invalid message") =>
        (last.outcome = "rejected" /\ LedgerUntouched)

\* C3: under every interleaving of the jobs of the appends, the record at index i
\* of the chain has height i (indices from 0), so no two records share a height.
C3_HeightsUnique ==
    \A i \in 1..Len(chain) : Defined(i) => chain[i][1].height = i - 1

\* C4: links. Every record of height h > 0 holds as previousBlockHash the stored
\* hash of the record of height h - 1, and the record of height 0 is the only one
\* whose previousBlockHash is null.
C4_LinkInvariant ==
    \A i \in 1..Len(chain) :
        /\ Defined(i)
        /\ chain[i][1].height = i - 1
        /\ (i > 1 => chain[i][1].previousBlockHash = chain[i - 1][1].hash)
        /\ (chain[i][1].previousBlockHash = NULL <=> i = 1)

\* C4 witness: a chain of three records, two of them linked to their predecessor
C4_Witness ==
    /\ Quiet
    /\ Len(chain) = 3
    /\ chain[3][1].previousBlockHash = chain[2][1].hash
    /\ chain[2][1].previousBlockHash = chain[1][1].hash

\* C5: on a ledger built by appends alone, a validateChain that has run to its end
\* resolved, and with no error.
C5_ValidateChainClean ==
    last.op = "validateChain" => (last.outcome = "resolved" /\ last.report.clean)

\* C5 witness: validateChain has examined a genesis record and two appended records
C5_Witness ==
    /\ last.op = "validateChain"
    /\ last.examined = 3
    /\ last.report.clean

\* C6: tamper detection. A record one field of which was changed out-of-band is
\* found invalid by validate(); the validateChain that finds it reports an invalid
\* block of that height, and has gone on through every record of the chain.
C6_TamperDetected ==
    /\ (queue # <<>> /\ job.pc = "check" /\ job.i \in dirty) => ~job.valid
    /\ last.op = "validateChain" =>
          /\ last.outcome = "resolved"
          /\ last.examined = Len(last.chainExamined)
          /\ \A i \in last.tampered :
                \E k \in 1..Len(last.report.errors) :
                    /\ last.report.errors[k].type = "Invalid block"
                    /\ last.report.errors[k].height = i - 1

\* C6 witness: a validateChain has reported a tampered record that has a successor
C6_Witness ==
    /\ last.op = "validateChain"
    /\ \E i \in last.tampered : i < last.examined
    /\ \E k \in 1..Len(last.report.errors) : last.report.errors[k].type = "Invalid block"

\* C7: validate() is read-only: the step of validate() that follows its await
\* leaves every field of every record as it was.
C7_ValidateReadOnly ==
    [][(queue # <<>> /\ job.pc = "rehash") => chain' = chain]_vars

\* C8: append is all-or-nothing: a candidate that fails the structural check is not
\* added, so that every element of the chain is a sealed record.
C8_EveryElementSealed ==
    \A i \in 1..Len(chain) : Defined(i) /\ chain[i][1].hash # NULL

GenesisRecords ==
    {i \in 1..Len(chain) : Defined(i) /\ chain[i][1].body = EncodeBody(GenesisData)}

\* C9: initializeChain is idempotent: however often and whenever it is called, the
\* chain never holds two genesis records, and holds one once the calls have finished.
C9_OneGenesis ==
    /\ Cardinality(GenesisRecords) <= 1
    /\ Quiet => Cardinality(GenesisRecords) = 1

\* C10: a submitStar that resolves has committed exactly one record and returns it:
\* the new tail, of height n + 1 on a ledger of height n, owned by the address,
\* linked to the former tail, its body decoding to the submitted star; the height
\* of the ledger is n + 1.
C10_SubmitStarCommits ==
    (SubmitSettled /\ last.outcome = "resolved") =>
        LET n == last.heightBefore
            before == last.chainBefore
        IN /\ last.value # Undefined
           /\ last.chainAfter = Append(before, last.value)
           /\ last.heightAfter = n + 1
           /\ last.value[1].height = n + 1
           /\ last.value[1].owner = last.address
           /\ last.value[1].previousBlockHash = before[Len(before)][1].hash
           /\ DecodeBody(last.value[1].body) = [key |-> KeyStar, val |-> last.star]

\* seconds between the issue of the challenge and the call of the submitStar that
\* settled last
Elapsed == last.calledAt - RequestTime(last.message)

SignatureVerifies == Verify(last.message, last.address, last.signature)

\* C11: the outcome of a submitStar is a function of the elapsed time and of the
\* signature: it fails as timed out exactly when 300 seconds or more have elapsed,
\* whatever the signature; it fails as an invalid message exactly when less than
\* 300 seconds have elapsed and the signature does not verify; otherwise it
\* resolves with the record it committed, the new tail of the chain.
C11_SubmitOutcome ==
    SubmitSettled =>
        /\ (last.outcome = "rejected" /\ last.error = "timed out")
              <=> Elapsed >= 300
        /\ (last.outcome = "rejected" /\ last.error = "invalid message")
              <=> (Elapsed < 300 /\ ~SignatureVerifies)
        /\ (Elapsed < 300 /\ SignatureVerifies) =>
              /\ last.outcome = "resolved"
              /\ last.value # Undefined
              /\ last.value = last.chainAfter[Len(last.chainAfter)]

\* C11 witness: a submitStar made exactly 300 seconds after the issue of its
\* challenge, with a signature that does not verify, was rejected as timed out
C11_Witness ==
    /\ SubmitSettled
    /\ Elapsed = 300
    /\ ~SignatureVerifies
    /\ last.error = "timed out"

\* a submitStar made 299 seconds after the issue of its challenge resolved
C11_Witness299 ==
    /\ SubmitSettled
    /\ Elapsed = 299
    /\ last.outcome = "resolved"

\* the validateChain that settled last ran over a chain built by appends in which
\* one change was ever made out-of-band, to the given field of the record at index i
ValidatedAfterTamper(i, field) ==
    /\ last.op = "validateChain"
    /\ mutated = 1
    /\ last.tampered = {i}
    /\ CASE field = "previousBlockHash" ->
               last.chainExamined[i][1].previousBlockHash = ForgedHash
         [] field = "body" ->
               last.chainExamined[i][1].body = Tampered(last.chainExamined[i][1], "body").body

\* the report of the validateChain that settled last holds an error of the type
\* for the height
Reported(type, h) ==
    \E k \in 1..Len(last.report.errors) :
        last.report.errors[k].type = type /\ last.report.errors[k].height = h

\* C12: the link check does not depend on the tamper check: when only the
\* previousBlockHash of a sealed record of height h > 0 was changed out-of-band to
\* a value that is not the hash of the record of height h - 1, validateChain
\* reports a broken link for height h.
C12_BrokenLinkReported ==
    \A i \in 2..Len(chain) :
        ValidatedAfterTamper(i, "previousBlockHash") =>
            (last.outcome = "resolved" /\ Reported("Invalid link", i - 1))

\* the block was made by new Block(data)
ConstructedWith(b, data) == b.body = NewBlock(data).body

\* the call that settled last was getBData()
DecodedRecord == last.op = "getBData"

\* the block getBData() was called on sits in the chain as it was before the call
RecordKept == \E i \in 1..Len(chain) : chain[i] = Some(last.block)

\* C13: getBData() of the genesis record fails with the genesis error; getBData() of
\* a record of height > 0 resolves with the very payload the record was
\* constructed with; and the record is as it was before the call.
C13_DecodeRoundTrip ==
    DecodedRecord =>
        /\ RecordKept
        /\ last.block.height = 0 =>
              (last.outcome = "rejected" /\ last.error = "Genesis Block")
        /\ last.block.height > 0 =>
              \A star \in Payloads :
                  ConstructedWith(last.block, [key |-> KeyStar, val |-> star]) =>
                      /\ last.outcome = "resolved"
                      /\ last.value = Some([key |-> KeyStar, val |-> star])

\* the part of C13 that holds: the genesis record is never decoded for a caller,
\* and a payload of ASCII characters comes back as it was given
C13_AsciiRoundTrip ==
    DecodedRecord =>
        /\ RecordKept
        /\ last.block.height = 0 =>
              (last.outcome = "rejected" /\ last.error = "Genesis Block")
        /\ last.block.height > 0 =>
              \A star \in Payloads :
                  (/\ ConstructedWith(last.block, [key |-> KeyStar, val |-> star])
                   /\ \A k \in 1..Len(star) : star[k] < 128) =>
                      /\ last.outcome = "resolved"
                      /\ last.value = Some([key |-> KeyStar, val |-> star])

\* the indices of the records of an owner
OwnedBy(address) == {i \in 1..Len(chain) : Defined(i) /\ chain[i][1].owner = address}

\* the k-th smallest element of a set of indices
RECURSIVE Nth(_, _)
Nth(S, k) ==
    LET least == CHOOSE i \in S : \A m \in S : i <= m
    IN IF k = 1 THEN least ELSE Nth(S \ {least}, k - 1)

\* C14: getStarsByWalletAddress(address) is rejected exactly when no record has
\* that owner; otherwise it resolves with one decoded body per record of that owner,
\* in the order of the chain, none of them the genesis record or a record of
\* another owner.
C14_StarsOfOwner ==
    last.op = "getStars" =>
        LET owned == OwnedBy(last.address)
        IN /\ last.outcome \in {"resolved", "rejected"}
           /\ last.outcome = "rejected" <=> owned = {}
           /\ last.outcome = "resolved" =>
                 /\ Len(last.value) = Cardinality(owned)
                 /\ \A k \in 1..Len(last.value) :
                       /\ chain[Nth(owned, k)][1].height > 0
                       /\ last.value[k] = DecodeBody(chain[Nth(owned, k)][1].body)

\* C14 witness: the chain holds two records of one owner with different payloads,
\* and getStarsByWalletAddress resolved with the two of them for that owner
C14_Witness ==
    /\ last.op = "getStars"
    /\ last.outcome = "resolved"
    /\ Len(chain) = 3
    /\ OwnedBy(last.address) = {2, 3}
    /\ chain[2][1].body # chain[3][1].body
    /\ Len(last.value) = 2

\* the errors of a type in the report of the validateChain that settled last
ErrorsOfType(type) ==
    {k \in 1..Len(last.report.errors) : last.report.errors[k].type = type}

\* C15: on a ledger built by appends, when only the body of the record of height
\* h >= 1, which has a successor, was changed out-of-band, validateChain resolves
\* with a report that holds exactly one invalid-block error, for height h, a
\* broken-link error for height h + 1, and no error for any other height.
C15_BodyCorruptionReport ==
    \A i \in 2..(Len(chain) - 1) :
        ValidatedAfterTamper(i, "body") =>
            /\ last.outcome = "resolved"
            /\ Cardinality(ErrorsOfType("Invalid block")) = 1
            /\ Reported("Invalid block", i - 1)
            /\ Reported("Invalid link", i)
            /\ \A k \in 1..Len(last.report.errors) :
                  last.report.errors[k].height \in {i - 1, i}

\* C15 witness: validateChain has run over three records, the body of the second
\* changed out-of-band, and reported the second and the link of the third
C15_Witness ==
    /\ ValidatedAfterTamper(2, "body")
    /\ Len(last.chainExamined) = 3
    /\ Reported("Invalid block", 1)
    /\ Reported("Invalid link", 2)

\* C16: between any two steps of the operations in flight, the height of the ledger
\* is the length of the chain minus one, and it is -1 exactly while the chain is
\* empty.
C16_HeightIsLengthMinusOne ==
    /\ height = Len(chain) - 1
    /\ height = -1 <=> chain = <<>>

\* C16 witness: two appends are in flight, one of which has pushed its record on
\* top of the genesis record and has not settled yet
C16_Witness ==
    /\ Len(queue) = 2
    /\ \E k \in 1..2 : queue[k].pc = "settle"
    /\ Len(chain) = 2
    /\ height = 1

\* C17: the ledger is append-only: over every step of every call (initializeChain,
\* submitStar, the lookups, getStarsByWalletAddress, validateChain) on a ledger that
\* nobody changes out-of-band, the chain before the step is a prefix of the chain
\* after it, so that no committed record is ever removed, moved, replaced or changed
\* in a field.
C17_AppendOnly ==
    [][/\ Len(chain) <= Len(chain')
       /\ SubSeq(chain', 1, Len(chain)) = chain]_vars

\* C17 witness: getStarsByWalletAddress has resolved on a chain of three records and
\* the validation it started has run over all of them
C17_Witness ==
    /\ Quiet
    /\ last.op = "getStars"
    /\ last.outcome = "resolved"
    /\ Len(chain) = 3

\* C18: validateChain is repeatable: a validateChain that follows another one, with
\* no change of the ledger in between, resolves with the same report, so that what
\* the first call reported is reported again.
C18_ValidateRepeatable ==
    (last.op = "validateChain" /\ last.previous # <<>>) =>
        (last.outcome = "resolved" /\ last.report = last.previous[1])

\* C19: a signed challenge is not used up: every submitStar made less than 300
\* seconds after the issue of its challenge with a signature that verifies resolves
\* and appends a record of its own, owned by the address, however many calls before
\* it carried the same address, message and signature; the chain then holds a
\* record of the address for each of those calls.
C19_ChallengeNotConsumed ==
    (SubmitSettled /\ Elapsed < 300 /\ SignatureVerifies) =>
        /\ last.outcome = "resolved"
        /\ last.value # Undefined
        /\ last.value[1].owner = last.address
        /\ last.chainAfter = Append(last.chainBefore, last.value)
        /\ Cardinality(OwnedBy(last.address)) >= last.uses

\* C19 witness: the second of two submitStar calls with the same address, message
\* and signature has resolved, and the chain holds the records of both
C19_Witness ==
    /\ SubmitSettled
    /\ last.uses = 2
    /\ last.outcome = "resolved"
    /\ OwnedBy(last.address) = {2, 3}

====
